---------------------------- MODULE Spec2Model ----------------------------
(***************************************************************************)
(* State-machine model of the three components of the PDF toolkit: the     *)
(* page organizer (PdfOrganizer), the merger (PdfMerger) and the image     *)
(* converter (ImageToPdf).                                                 *)
(*                                                                         *)
(* The React state of a component is the state of the model: the           *)
(* organizer's useState values are variables of their own, the merger's    *)
(* and the converter's are the fields of `merger` and `converter`.  Every  *)
(* event handler is one action; an async handler is split at its awaits:   *)
(* the part up to the first await is the action named after the handler,   *)
(* every later continuation is an action of its own, and the calls that    *)
(* are between two awaits are kept in `calls`.  An event handler reads the *)
(* state of the render it was created in, which is the current state; an   *)
(* async continuation reads the values its closure captured when the       *)
(* handler was invoked, and functional updaters (setPages(prev => ...))    *)
(* read the state at the time they run.                                    *)
(*                                                                         *)
(* Array positions are 0-based, as in the source.                          *)
(*                                                                         *)
(* Spec is the three components with every handler.  SpecMove, SpecAdd,    *)
(* SpecDup, SpecSave, SpecAppend and SpecEdit are sessions of the          *)
(* organizer in which the user uses some of the controls only, SpecMerge   *)
(* is the merger and SpecConvert the converter on their own; their state   *)
(* spaces are the ones TLC explores in full.  SpecConvertFair adds that    *)
(* the load event of an image that decodes is delivered.                   *)
(***************************************************************************)
EXTENDS Integers, Sequences, FiniteSets, TLC

(***************************************************************************)
(* Bounds of the model.                                                    *)
(***************************************************************************)
\* Longest page list explored (duplicatePage / add-pages stop growing it).
MaxPages == 3
\* Number of times the millisecond clock advances.
MaxTicks == 1
\* Math.random() returns one of MaxRandom + 1 values.
MaxRandom == 1
\* Async calls (load, add-pages, save) that may be pending at once.
MaxInFlight == 2
\* Clock reading at the start; any real reading is far above a page count.
Epoch == 1000

(***************************************************************************)
(* Input files.  A file is known by its name; PageCount is what            *)
(* PDFDocument.load(...).getPageCount() gives for it, -1 when the bytes    *)
(* do not parse.                                                           *)
(***************************************************************************)
NoFile == "null"

\* The files offered to the drop zone and to "Add Pages".
LoadFiles == {"a.pdf", "bad.pdf"}

LongFiles == {"c.pdf", "bad.pdf"}

AddFiles == {"b.pdf", "bad.pdf"}

PageCount(f) == CASE f = "a.pdf" -> 2
                  [] f = "b.pdf" -> 1
                  [] f = "c.pdf" -> 3
                  [] OTHER -> -1

VARIABLES
    pdfFile,        \* useState<File | null>
    pdfDoc,         \* useState<PDFDocument | null>: the file it was parsed from
    pages,          \* useState<PdfPage[]>
    isProcessing,   \* useState(false)
    selectedPages,  \* useState<Set<string>>
    draggedPageId,  \* useState<string | null>
    calls,          \* async calls between two awaits, in the order they started
                    \* (old: the organizer was reset since the call started)
    now,            \* milliseconds elapsed on the clock read by Date.now()
    last,           \* the last handler step: its name, arguments, alert, download
    hist,           \* history of the session (read by the properties only):
                    \* loaded: a load with pages completed since the reset;
                    \* dropped: an object URL created since the reset is held by
                    \* no entry any more and was not revoked
    merger,         \* PdfMerger: pdfs, isProcessing, and its call between awaits
    converter       \* ImageToPdf: images, isProcessing, its pending FileReaders
                    \* and its call between awaits

vars == <<pdfFile, pdfDoc, pages, isProcessing, selectedPages, draggedPageId,
          calls, now, last, hist, merger, converter>>

\* The state of the organizer.
organizer == <<pdfFile, pdfDoc, pages, isProcessing, selectedPages, draggedPageId,
               calls, hist>>

(***************************************************************************)
(* Page identifiers.  An id is the string "page-<t1>" or "page-<t1>-<t2>"; *)
(* it is modelled as the sequence of its tokens after "page", each token   *)
(* being the decimal text of an integer or the text of a fraction.         *)
(***************************************************************************)
IntTok(n) == <<"int", n>>

\* The text of Math.random(): value 0 prints as "0", any other value k
\* prints as a fraction "0.k..." that is the text of no integer.
RandomTok(k) == IF k = 0 THEN IntTok(0) ELSE <<"frac", k>>

\* parseInt(text): the integer for an integer text, the integral part (0)
\* for a fraction below 1.
parseInt(tok) == IF tok[1] = "int" THEN tok[2] ELSE 0

DateNow == Epoch + now

NoId == <<>>

\* (handleFile with the 1-based pageNumber in the id instead of the index.)
LoadedPageNumbered(f, i) ==
    [id |-> <<IntTok(i + 1)>>, originalIndex |-> i,
     thumbnail |-> [doc |-> f, page |-> i]]

\* The entry handleFile builds for page i of file f.
LoadedPage(f, i) ==
    [id |-> <<IntTok(i)>>, originalIndex |-> i, thumbnail |-> [doc |-> f, page |-> i]]

\* The entry addPagesFromFile builds for page i of file f.
AddedPage(f, i) ==
    [id |-> <<IntTok(DateNow), IntTok(i)>>, originalIndex |-> i,
     thumbnail |-> [doc |-> f, page |-> i]]

\* The copy duplicatePage makes of entry p when Math.random() returns r.
DuplicateOf(p, r) ==
    [p EXCEPT !.id = <<IntTok(DateNow), RandomTok(r)>>]

\* page.id.split('-')[1] parsed as an integer (savePdf).
PageIndexOf(id) == parseInt(id[1])

(***************************************************************************)
(* Array helpers (0-based positions).                                      *)
(***************************************************************************)
At(s, i) == s[i + 1]

\* s.splice(i, 1)
RemoveAt(s, i) ==
    IF i < 0 \/ i >= Len(s) THEN s
    ELSE SubSeq(s, 1, i) \o SubSeq(s, i + 2, Len(s))

\* s.splice(i, 0, x)
InsertAt(s, i, x) ==
    LET j == IF i > Len(s) THEN Len(s) ELSE IF i < 0 THEN 0 ELSE i
    IN  SubSeq(s, 1, j) \o <<x>> \o SubSeq(s, j + 1, Len(s))

\* s.findIndex(p => p.id === id)
FindIndex(s, id) ==
    IF \E i \in 0..(Len(s) - 1) : At(s, i).id = id
    THEN CHOOSE i \in 0..(Len(s) - 1) :
            /\ At(s, i).id = id
            /\ \A j \in 0..(i - 1) : At(s, j).id # id
    ELSE -1

\* s.filter(page => !sel.has(page.id))
FilterOut(s, sel) ==
    LET Keep(p) == p.id \notin sel
    IN  SelectSeq(s, Keep)

Ids(s) == {s[k].id : k \in 1..Len(s)}

\* The object URLs the entries of s hold (page.thumbnail).  A thumbnail is
\* named by the page it shows; entries with the same thumbnail are taken to
\* hold one URL, as an entry and its duplicates do.
Urls(s) == {s[k].thumbnail : k \in 1..Len(s)}

(***************************************************************************)
(* The document savePdf builds from the page list `snap` and the file      *)
(* `file` it re-parses: one page per entry whose parsed index is a page of *)
(* that file.  A page of the output is named by its file and page index.   *)
(***************************************************************************)
Resolvable(p, file) == PageIndexOf(p.id) < PageCount(file)

SaveOutput(snap, file) ==
    LET Keep(p) == Resolvable(p, file)
        kept == SelectSeq(snap, Keep)
    IN  [j \in 1..Len(kept) |-> [doc |-> file, page |-> PageIndexOf(kept[j].id)]]

(***************************************************************************)
(* What the component renders: the drop zone, the loading spinner or the   *)
(* organizer with its buttons.                                             *)
(***************************************************************************)
View ==
    IF pdfFile = NoFile THEN "drop"
    ELSE IF isProcessing /\ pages = <<>> THEN "loading"
    ELSE "organizer"

(***************************************************************************)
(* Bookkeeping.                                                            *)
(***************************************************************************)
Ev(op) == [op |-> op, a |-> -1, b |-> -1, flag |-> FALSE,
           file |-> NoFile, snap |-> <<>>, out |-> <<>>]

Call(kind, f) == [kind |-> kind, file |-> f, pc |-> "parse", i |-> 0,
                  list |-> <<>>, snap |-> <<>>, dirty |-> FALSE, dupAt |-> -1,
                  old |-> FALSE]

DropCall(k) == SubSeq(calls, 1, k - 1) \o SubSeq(calls, k + 1, Len(calls))

Init ==
    /\ pdfFile = NoFile
    /\ pdfDoc = NoFile
    /\ pages = <<>>
    /\ isProcessing = FALSE
    /\ selectedPages = {}
    /\ draggedPageId = NoId
    /\ calls = <<>>
    /\ now = 0
    /\ last = Ev("init")
    /\ hist = [loaded |-> FALSE, dropped |-> FALSE]
    /\ merger = [pdfs |-> <<>>, isProcessing |-> FALSE, calls |-> <<>>]
    /\ converter = [images |-> <<>>, isProcessing |-> FALSE, readers |-> {},
                    batches |-> 0, calls |-> <<>>]

\* The clock read by Date.now() advances.
Tick ==
    /\ now < MaxTicks
    /\ now' = now + 1
    /\ last' = Ev("other")
    /\ UNCHANGED <<pdfFile, pdfDoc, pages, isProcessing, selectedPages,
                   draggedPageId, calls, hist>>
    /\ UNCHANGED <<merger, converter>>

\* Whether the step being taken changes the manager's state proper.
Changes ==
    <<pdfFile', pdfDoc', pages', selectedPages'>> #
    <<pdfFile, pdfDoc, pages, selectedPages>>

(***************************************************************************)
(* handleFile: load a document (drop zone or file input).                  *)
(***************************************************************************)
\* Up to the first await.
handleFile(f) ==
    /\ View = "drop"
    /\ Len(calls) < MaxInFlight
    /\ isProcessing' = TRUE
    /\ pdfFile' = f
    /\ selectedPages' = {}
    /\ UNCHANGED <<pdfDoc, pages, draggedPageId, now>>
    /\ calls' = Append(calls, [Call("load", f) EXCEPT !.dirty = Changes])
    /\ last' = Ev("other")
    /\ UNCHANGED hist
    /\ UNCHANGED <<merger, converter>>

\* The tail of handleFile: setPages(pagesList), then finally.
LoadCommit(k, list) ==
    /\ pages' = list
    /\ isProcessing' = FALSE
    /\ calls' = DropCall(k)
    /\ last' = [Ev("loaded") EXCEPT !.file = calls[k].file]
    /\ hist' = [hist EXCEPT !.loaded = @ \/ list # <<>>,
                             !.dropped = @ \/ pages # <<>>]

\* PDFDocument.load resolved: setPdfDoc, then the first thumbnail is awaited.
handleFileParsed(k) ==
    LET c == calls[k] IN
    /\ c.kind = "load" /\ c.pc = "parse"
    /\ PageCount(c.file) >= 0
    /\ pdfDoc' = c.file
    /\ UNCHANGED <<pdfFile, selectedPages, draggedPageId, now>>
    /\ IF PageCount(c.file) = 0
       THEN LoadCommit(k, <<>>)
       ELSE /\ UNCHANGED <<pages, isProcessing, hist>>
            /\ calls' = [calls EXCEPT ![k] =
                            [c EXCEPT !.pc = "thumb", !.dirty = @ \/ Changes]]
            /\ last' = Ev("other")
    /\ UNCHANGED <<merger, converter>>

\* generateThumbnail(pdf, i) resolved: push the entry; after the last one
\* the list replaces the page list.
handleFileThumbnail(k) ==
    LET c == calls[k]
        list == Append(c.list, LoadedPage(c.file, c.i))
    IN
    /\ c.kind = "load" /\ c.pc = "thumb"
    /\ UNCHANGED <<pdfFile, pdfDoc, selectedPages, draggedPageId, now>>
    /\ IF c.i + 1 = PageCount(c.file)
       THEN LoadCommit(k, list)
       ELSE /\ UNCHANGED <<pages, isProcessing, hist>>
            /\ calls' = [calls EXCEPT ![k] = [c EXCEPT !.i = @ + 1, !.list = list]]
            /\ last' = Ev("other")
    /\ UNCHANGED <<merger, converter>>

\* PDFDocument.load or generateThumbnail rejected: catch (alert), finally.
handleFileFailed(k) ==
    LET c == calls[k] IN
    /\ c.kind = "load"
    /\ \/ c.pc = "parse" /\ PageCount(c.file) < 0
       \/ c.pc = "thumb"
    /\ isProcessing' = FALSE
    /\ calls' = DropCall(k)
    /\ UNCHANGED <<pdfFile, pdfDoc, pages, selectedPages, draggedPageId, now>>
    /\ last' = [Ev("loadFailed") EXCEPT !.file = c.file, !.flag = c.dirty \/ Changes]
    /\ hist' = [hist EXCEPT !.dropped = @ \/ c.list # <<>>]
    /\ UNCHANGED <<merger, converter>>

(***************************************************************************)
(* Synchronous handlers of the organizer view.                             *)
(***************************************************************************)
togglePageSelection(id) ==
    /\ View = "organizer"
    /\ id \in Ids(pages)
    /\ selectedPages' = IF id \in selectedPages
                        THEN selectedPages \ {id}
                        ELSE selectedPages \cup {id}
    /\ last' = Ev("other")
    /\ UNCHANGED <<pdfFile, pdfDoc, pages, isProcessing, draggedPageId,
                   calls, now, hist>>
    /\ UNCHANGED <<merger, converter>>

\* The button is disabled while nothing is selected.  No URL is revoked.
deleteSelectedPages ==
    /\ View = "organizer"
    /\ selectedPages # {}
    /\ IF Len(pages) = Cardinality(selectedPages)
       THEN /\ UNCHANGED <<pages, selectedPages>>
            /\ last' = [Ev("deleteSelectedPages") EXCEPT !.flag = TRUE]
       ELSE /\ pages' = FilterOut(pages, selectedPages)
            /\ selectedPages' = {}
            /\ last' = Ev("deleteSelectedPages")
    /\ hist' = [hist EXCEPT !.dropped = @ \/ ~(Urls(pages) \subseteq Urls(pages'))]
    /\ UNCHANGED <<pdfFile, pdfDoc, isProcessing, draggedPageId, calls, now>>
    /\ UNCHANGED <<merger, converter>>

\* The arrow buttons of the page at fromIndex: toIndex is a neighbour, and
\* the button that would leave the list is disabled.
movePage(fromIndex, toIndex) ==
    /\ View = "organizer"
    /\ fromIndex \in 0..(Len(pages) - 1)
    /\ toIndex \in {fromIndex - 1, fromIndex + 1}
    /\ ~(toIndex = fromIndex - 1 /\ fromIndex = 0)
    /\ ~(toIndex = fromIndex + 1 /\ fromIndex = Len(pages) - 1)
    /\ IF toIndex < 0 \/ toIndex >= Len(pages)
       THEN UNCHANGED pages
       ELSE pages' = InsertAt(RemoveAt(pages, fromIndex), toIndex, At(pages, fromIndex))
    /\ last' = [Ev("movePage") EXCEPT !.a = fromIndex, !.b = toIndex]
    /\ UNCHANGED <<pdfFile, pdfDoc, isProcessing, selectedPages, draggedPageId,
                   calls, now, hist>>
    /\ UNCHANGED <<merger, converter>>

duplicatePage(index, r) ==
    /\ View = "organizer"
    /\ index \in 0..(Len(pages) - 1)
    /\ Len(pages) < MaxPages
    /\ pages' = InsertAt(pages, index + 1, DuplicateOf(At(pages, index), r))
    /\ last' = [Ev("duplicatePage") EXCEPT !.a = index]
    /\ UNCHANGED <<pdfFile, pdfDoc, isProcessing, selectedPages, draggedPageId,
                   calls, now, hist>>
    /\ UNCHANGED <<merger, converter>>

handlePageDragStart(pageId) ==
    /\ View = "organizer"
    /\ pageId \in Ids(pages)
    /\ draggedPageId' = pageId
    /\ last' = Ev("other")
    /\ UNCHANGED <<pdfFile, pdfDoc, pages, isProcessing, selectedPages,
                   calls, now, hist>>
    /\ UNCHANGED <<merger, converter>>

handlePageDrop(dropIndex) ==
    LET draggedIndex == FindIndex(pages, draggedPageId)
        finalIndex == IF draggedIndex < dropIndex THEN dropIndex - 1 ELSE dropIndex
    IN
    /\ View = "organizer"
    /\ dropIndex \in 0..(Len(pages) - 1)
    /\ draggedPageId # NoId
    /\ IF draggedIndex = -1 \/ draggedIndex = dropIndex
       THEN UNCHANGED pages
       ELSE pages' = InsertAt(RemoveAt(pages, draggedIndex), finalIndex,
                              At(pages, draggedIndex))
    /\ draggedPageId' = NoId
    /\ last' = [Ev("handlePageDrop") EXCEPT !.a = draggedIndex, !.b = dropIndex]
    /\ UNCHANGED <<pdfFile, pdfDoc, isProcessing, selectedPages, calls, now, hist>>
    /\ UNCHANGED <<merger, converter>>

\* Revokes the URLs of the entries of the list, then clears the state.
resetOrganizer ==
    /\ View = "organizer"
    /\ pdfFile' = NoFile
    /\ pdfDoc' = NoFile
    /\ pages' = <<>>
    /\ selectedPages' = {}
    /\ draggedPageId' = NoId
    /\ last' = [Ev("resetOrganizer") EXCEPT !.flag = hist.dropped]
    /\ hist' = [loaded |-> FALSE, dropped |-> FALSE]
    /\ calls' = [k \in 1..Len(calls) |-> [calls[k] EXCEPT !.old = TRUE]]
    /\ UNCHANGED <<isProcessing, now>>
    /\ UNCHANGED <<merger, converter>>

(***************************************************************************)
(* addPagesFromFile: append the pages of another document.                 *)
(***************************************************************************)
\* Up to the first await.  The "Add Pages" input is never disabled.
addPagesFromFile(f) ==
    /\ View = "organizer"
    /\ Len(calls) < MaxInFlight
    /\ isProcessing' = TRUE
    /\ calls' = Append(calls, Call("add", f))
    /\ last' = Ev("other")
    /\ UNCHANGED <<pdfFile, pdfDoc, pages, selectedPages, draggedPageId, now, hist>>
    /\ UNCHANGED <<merger, converter>>

\* The tail of addPagesFromFile: setPages(prev => [...prev, ...newPages]),
\* then finally.
AddCommit(k, list) ==
    /\ Len(pages) + Len(list) <= MaxPages
    /\ pages' = pages \o list
    /\ isProcessing' = FALSE
    /\ calls' = DropCall(k)
    /\ last' = [Ev("added") EXCEPT !.file = calls[k].file, !.a = Len(list),
                                   !.flag = calls[k].old]

\* PDFDocument.load resolved; the first thumbnail is awaited.
addPagesParsed(k) ==
    LET c == calls[k] IN
    /\ c.kind = "add" /\ c.pc = "parse"
    /\ PageCount(c.file) >= 0
    /\ UNCHANGED <<pdfFile, pdfDoc, selectedPages, draggedPageId, now, hist>>
    /\ IF PageCount(c.file) = 0
       THEN AddCommit(k, <<>>)
       ELSE /\ UNCHANGED <<pages, isProcessing>>
            /\ calls' = [calls EXCEPT ![k] = [c EXCEPT !.pc = "thumb"]]
            /\ last' = Ev("other")
    /\ UNCHANGED <<merger, converter>>

\* generateThumbnail(newPdf, i) resolved: push the entry, whose id reads the
\* clock now; after the last one the entries are appended to the page list.
addPagesThumbnail(k) ==
    LET c == calls[k]
        list == Append(c.list, AddedPage(c.file, c.i))
    IN
    /\ c.kind = "add" /\ c.pc = "thumb"
    /\ UNCHANGED <<pdfFile, pdfDoc, selectedPages, draggedPageId, now, hist>>
    /\ IF c.i + 1 = PageCount(c.file)
       THEN AddCommit(k, list)
       ELSE /\ UNCHANGED <<pages, isProcessing>>
            /\ calls' = [calls EXCEPT ![k] = [c EXCEPT !.i = @ + 1, !.list = list]]
            /\ last' = Ev("other")
    /\ UNCHANGED <<merger, converter>>

\* PDFDocument.load or generateThumbnail rejected: catch (alert), finally.
addPagesFailed(k) ==
    LET c == calls[k] IN
    /\ c.kind = "add"
    /\ \/ c.pc = "parse" /\ PageCount(c.file) < 0
       \/ c.pc = "thumb"
    /\ isProcessing' = FALSE
    /\ calls' = DropCall(k)
    /\ UNCHANGED <<pdfFile, pdfDoc, pages, selectedPages, draggedPageId, now>>
    /\ last' = [Ev("addFailed") EXCEPT !.file = c.file, !.flag = c.dirty \/ Changes]
    /\ hist' = [hist EXCEPT !.dropped = @ \/ c.list # <<>>]
    /\ UNCHANGED <<merger, converter>>

(***************************************************************************)
(* savePdf: build the output document and hand it to saveAs.               *)
(***************************************************************************)
\* Up to the first await.  The button is disabled while isProcessing or
\* while there is no page.  The closure keeps pdfFile and pages.
savePdf ==
    /\ View = "organizer"
    /\ ~isProcessing /\ pages # <<>>
    /\ Len(calls) < MaxInFlight
    /\ IF pdfDoc = NoFile
       THEN UNCHANGED <<isProcessing, calls>>
       ELSE /\ isProcessing' = TRUE
            /\ calls' = Append(calls,
                   [Call("save", pdfFile) EXCEPT
                       !.snap = pages,
                       !.dupAt = IF last.op = "duplicatePage" THEN last.a ELSE -1])
    /\ last' = Ev("other")
    /\ UNCHANGED <<pdfFile, pdfDoc, pages, selectedPages, draggedPageId, now, hist>>
    /\ UNCHANGED <<merger, converter>>

\* (savePdf reading the page list of the state instead of its closure.)
StatePages(c) == pages

\* The `pages` an in-flight savePdf iterates over: the constant of the render
\* its handler was created in, that is the list when it was invoked.
ClosurePages(c) == c.snap

\* The file parsed again, every page copied, the document serialized:
\* saveAs delivers it; then finally.
savePdfDelivered(k) ==
    LET c == calls[k] IN
    /\ c.kind = "save"
    /\ PageCount(c.file) >= 0
    /\ isProcessing' = FALSE
    /\ calls' = DropCall(k)
    /\ last' = [Ev("saved") EXCEPT !.file = c.file, !.snap = c.snap, !.a = c.dupAt,
                                   !.out = SaveOutput(ClosurePages(c), c.file)]
    /\ UNCHANGED <<pdfFile, pdfDoc, pages, selectedPages, draggedPageId, now, hist>>
    /\ UNCHANGED <<merger, converter>>

\* A library call of savePdf rejected: catch (alert), finally.
savePdfFailed(k) ==
    LET c == calls[k] IN
    /\ c.kind = "save"
    /\ isProcessing' = FALSE
    /\ calls' = DropCall(k)
    /\ last' = [Ev("saveFailed") EXCEPT !.file = c.file]
    /\ UNCHANGED <<pdfFile, pdfDoc, pages, selectedPages, draggedPageId, now, hist>>
    /\ UNCHANGED <<merger, converter>>

(***************************************************************************)
(* PdfMerger.  An entry of `pdfs` is a file with the id handleFiles gave   *)
(* it (its name and size are read from the file).  A page of the merged    *)
(* document is named by its file and page index.                           *)
(***************************************************************************)
\* Longest list of PDF files explored.
MaxPdfs == 3
\* Most files dropped or chosen at once.
MaxBatch == 2

\* The files offered to the merger.
MergeInputs == {"a.pdf", "b.pdf", "bad.pdf", "notes.txt"}

\* file.type, which the browser derives from the extension: the two parts
\* of "type/subtype".
FileType(f) ==
    CASE f \in {"a.pdf", "b.pdf", "c.pdf", "bad.pdf"} -> <<"application", "pdf">>
      [] f \in {"x.png", "broken.png"} -> <<"image", "png">>
      [] f = "logo.svg" -> <<"image", "svg+xml">>
      [] OTHER -> <<"text", "plain">>

\* The file lists a drop or a file input can deliver.
Batches(files) == UNION {[1..n -> files] : n \in 1..MaxBatch}

\* Date.now() + Math.random().toString()
FileId(r) == <<IntTok(DateNow), RandomTok(r)>>

\* (copyPages given the page indices last to first.)
CopiedPagesReversed(f) ==
    [j \in 1..PageCount(f) |-> [doc |-> f, page |-> PageCount(f) - j]]

\* mergedPdf.copyPages(pdf, pdf.getPageIndices()) for the parsed file f.
CopiedPages(f) == [j \in 1..PageCount(f) |-> [doc |-> f, page |-> j - 1]]

\* [newPdfs[index], newPdfs[targetIndex]] = [newPdfs[targetIndex], newPdfs[index]]
Swap(s, index, targetIndex) ==
    [s EXCEPT ![index + 1] = At(s, targetIndex), ![targetIndex + 1] = At(s, index)]

\* handleDrop / handleFileInput: files[j] gets the id drawn with rs[j].
PdfMerger_handleFiles(files, rs) ==
    LET IsPdf(f) == FileType(f) = <<"application", "pdf">>
        pdfFiles == SelectSeq(files, IsPdf)
        newPdfs == [j \in 1..Len(pdfFiles) |-> [id |-> FileId(rs[j]), file |-> pdfFiles[j]]]
    IN
    /\ Len(merger.pdfs) + Len(newPdfs) <= MaxPdfs
    /\ merger' = [merger EXCEPT !.pdfs = @ \o newPdfs]
    /\ last' = Ev("other")
    /\ UNCHANGED <<organizer, converter, now>>

removePdf(id) ==
    LET Keep(pdf) == pdf.id # id IN
    /\ id \in Ids(merger.pdfs)
    /\ merger' = [merger EXCEPT !.pdfs = SelectSeq(@, Keep)]
    /\ last' = Ev("other")
    /\ UNCHANGED <<organizer, converter, now>>

\* The arrows of the row at index; "up" is disabled on the first row and
\* "down" on the last.
movePdf(index, direction) ==
    LET targetIndex == IF direction = "up" THEN index - 1 ELSE index + 1 IN
    /\ index \in 0..(Len(merger.pdfs) - 1)
    /\ ~(direction = "up" /\ index = 0)
    /\ ~(direction = "down" /\ index = Len(merger.pdfs) - 1)
    /\ IF targetIndex >= 0 /\ targetIndex < Len(merger.pdfs)
       THEN merger' = [merger EXCEPT !.pdfs = Swap(@, index, targetIndex)]
       ELSE UNCHANGED merger
    /\ last' = Ev("other")
    /\ UNCHANGED <<organizer, converter, now>>

\* Up to the first await.  The button is disabled while isProcessing or
\* under two files.  The closure keeps pdfs.
mergePdfs ==
    /\ ~merger.isProcessing /\ Len(merger.pdfs) >= 2
    /\ IF Len(merger.pdfs) < 2
       THEN UNCHANGED merger
       ELSE merger' = [merger EXCEPT
                          !.isProcessing = TRUE,
                          !.calls = <<[snap |-> merger.pdfs, i |-> 0, out |-> <<>>]>>]
    /\ last' = Ev("other")
    /\ UNCHANGED <<organizer, converter, now>>

\* One turn of the loop: the file read and parsed, its pages copied and
\* added to the merged document.
mergePdfsCopied(k) ==
    LET c == merger.calls[k]
        f == At(c.snap, c.i).file
    IN
    /\ c.i < Len(c.snap)
    /\ PageCount(f) >= 0
    /\ merger' = [merger EXCEPT !.calls[k] =
                     [c EXCEPT !.i = @ + 1, !.out = @ \o CopiedPages(f)]]
    /\ last' = Ev("other")
    /\ UNCHANGED <<organizer, converter, now>>

\* PDFDocument.load rejected: catch (alert), finally.
mergePdfsFailed(k) ==
    LET c == merger.calls[k]
        f == At(c.snap, c.i).file
    IN
    /\ c.i < Len(c.snap)
    /\ PageCount(f) < 0
    /\ merger' = [merger EXCEPT !.isProcessing = FALSE, !.calls = <<>>]
    /\ last' = [Ev("mergeFailed") EXCEPT !.snap = c.snap, !.file = f]
    /\ UNCHANGED <<organizer, converter, now>>

\* After the loop: the merged document serialized, saveAs delivers it; then
\* finally.
mergePdfsDelivered(k) ==
    LET c == merger.calls[k] IN
    /\ c.i = Len(c.snap)
    /\ merger' = [merger EXCEPT !.isProcessing = FALSE, !.calls = <<>>]
    /\ last' = [Ev("merged") EXCEPT !.snap = c.snap, !.out = c.out]
    /\ UNCHANGED <<organizer, converter, now>>

(***************************************************************************)
(* ImageToPdf.  A File is named by its name, the handleFiles call that     *)
(* brought it and its position among the images of that call.  The         *)
(* document under construction is the sequence of its pages, a page being  *)
(* the sequence of the images placed on it.                                *)
(***************************************************************************)
\* Number of drops / file-input changes explored.
MaxBatches == 2

\* The files offered to the converter.
ImageInputs == {"x.png", "logo.svg", "broken.png", "notes.txt"}

\* Whether an image element given the file's data URL fires onload (it
\* fires onerror when the data do not decode).
Decodes(name) == name \in {"x.png", "logo.svg"}

\* Whether pdf.addImage accepts the data (it throws on a format it does not
\* know).
Embeds(name) == name = "x.png"

\* reader.readAsDataURL(file): e.target.result
DataUrl(file) == [scheme |-> "data", type |-> FileType(file.name), of |-> file]

\* new jsPDF(): a document with one blank page.
NewPdf == << <<>> >>

\* pdf.addPage()
AddPage(pdf) == Append(pdf, <<>>)

\* pdf.addImage(data, ...): onto the current page, the last one.
AddImage(pdf, data) == [pdf EXCEPT ![Len(pdf)] = Append(@, data)]

\* (a page added before every image.)
NeedsPageAlways(i) == TRUE

\* `if (i > 0)` before pdf.addPage()
NeedsPage(i) == i > 0

\* handleDrop / handleFileInput: one FileReader per image file.
ImageToPdf_handleFiles(files) ==
    LET IsImage(f) == FileType(f)[1] = "image"
        imageFiles == SelectSeq(files, IsImage)
        batch == converter.batches + 1
    IN
    /\ converter.batches < MaxBatches
    /\ converter' = [converter EXCEPT
          !.batches = batch,
          !.readers = @ \cup {[name |-> imageFiles[j], batch |-> batch, k |-> j] :
                                 j \in 1..Len(imageFiles)}]
    /\ last' = Ev("other")
    /\ UNCHANGED <<organizer, merger, now>>

\* reader.onload of the FileReader of `file`; Math.random() returns r.
readerOnload(file, r) ==
    /\ file \in converter.readers
    /\ converter' = [converter EXCEPT
          !.readers = @ \ {file},
          !.images = Append(@, [id |-> FileId(r), file |-> file,
                                preview |-> DataUrl(file)])]
    /\ last' = Ev("other")
    /\ UNCHANGED <<organizer, merger, now>>

removeImage(id) ==
    LET Keep(img) == img.id # id IN
    /\ id \in Ids(converter.images)
    /\ converter' = [converter EXCEPT !.images = SelectSeq(@, Keep)]
    /\ last' = Ev("other")
    /\ UNCHANGED <<organizer, merger, now>>

\* Up to the first await (the onload of the first image).  The button is
\* rendered when there is an image and disabled while isProcessing.  The
\* closure keeps images.
convertToPdf ==
    /\ converter.images # <<>> /\ ~converter.isProcessing
    /\ IF Len(converter.images) = 0
       THEN UNCHANGED converter
       ELSE converter' = [converter EXCEPT
               !.isProcessing = TRUE,
               !.calls = <<[snap |-> converter.images, i |-> 0, pdf |-> NewPdf]>>]
    /\ last' = Ev("other")
    /\ UNCHANGED <<organizer, merger, now>>

\* imgElement.onload of image i: the turn of the loop runs; after the last
\* image the document is delivered by saveAs (no await in between); then
\* finally.  addImage throwing goes to catch (alert), then finally.
imageOnload(k) ==
    LET c == converter.calls[k]
        img == At(c.snap, c.i)
        paged == IF NeedsPage(c.i) THEN AddPage(c.pdf) ELSE c.pdf
        pdf == AddImage(paged, img.preview)
    IN
    /\ c.i < Len(c.snap)
    /\ Decodes(img.file.name)
    /\ IF ~Embeds(img.file.name)
       THEN /\ converter' = [converter EXCEPT !.isProcessing = FALSE, !.calls = <<>>]
            /\ last' = [Ev("convertFailed") EXCEPT !.snap = c.snap]
       ELSE IF c.i + 1 < Len(c.snap)
       THEN /\ converter' = [converter EXCEPT !.calls[k] =
                                [c EXCEPT !.i = @ + 1, !.pdf = pdf]]
            /\ last' = Ev("other")
       ELSE /\ converter' = [converter EXCEPT !.isProcessing = FALSE, !.calls = <<>>]
            /\ last' = [Ev("converted") EXCEPT !.snap = c.snap, !.out = pdf]
    /\ UNCHANGED <<organizer, merger, now>>

(***************************************************************************)
(* Next-state relations.                                                   *)
(***************************************************************************)
Loading(files) ==
    \/ \E f \in files : handleFile(f)
    \/ \E k \in 1..Len(calls) : handleFileParsed(k)
    \/ \E k \in 1..Len(calls) : handleFileThumbnail(k)
    \/ \E k \in 1..Len(calls) : handleFileFailed(k)

Selecting ==
    \/ \E id \in Ids(pages) : togglePageSelection(id)
    \/ deleteSelectedPages

Moving ==
    \E i \in 0..(Len(pages) - 1) : \E j \in {i - 1, i + 1} : movePage(i, j)

Dragging ==
    \/ \E id \in Ids(pages) : handlePageDragStart(id)
    \/ \E i \in 0..(Len(pages) - 1) : handlePageDrop(i)

Duplicating ==
    \E i \in 0..(Len(pages) - 1) : \E r \in 0..MaxRandom : duplicatePage(i, r)

Adding ==
    \/ \E f \in AddFiles : addPagesFromFile(f)
    \/ \E k \in 1..Len(calls) : addPagesParsed(k)
    \/ \E k \in 1..Len(calls) : addPagesThumbnail(k)
    \/ \E k \in 1..Len(calls) : addPagesFailed(k)

Saving ==
    \/ savePdf
    \/ \E k \in 1..Len(calls) : savePdfDelivered(k)
    \/ \E k \in 1..Len(calls) : savePdfFailed(k)

Merging ==
    \/ \E files \in Batches(MergeInputs) : \E rs \in [1..Len(files) -> 0..MaxRandom] :
          PdfMerger_handleFiles(files, rs)
    \/ \E id \in Ids(merger.pdfs) : removePdf(id)
    \/ \E i \in 0..(Len(merger.pdfs) - 1) : \E d \in {"up", "down"} : movePdf(i, d)
    \/ mergePdfs
    \/ \E k \in 1..Len(merger.calls) : mergePdfsCopied(k)
    \/ \E k \in 1..Len(merger.calls) : mergePdfsFailed(k)
    \/ \E k \in 1..Len(merger.calls) : mergePdfsDelivered(k)

Converting ==
    \/ \E files \in Batches(ImageInputs) : ImageToPdf_handleFiles(files)
    \/ \E file \in converter.readers : \E r \in 0..MaxRandom : readerOnload(file, r)
    \/ \E id \in Ids(converter.images) : removeImage(id)
    \/ convertToPdf
    \/ \E k \in 1..Len(converter.calls) : imageOnload(k)

Next ==
    \/ Tick
    \/ Loading(LoadFiles \cup LongFiles)
    \/ Selecting
    \/ Moving
    \/ Dragging
    \/ Duplicating
    \/ Adding
    \/ Saving
    \/ resetOrganizer
    \/ Merging
    \/ Converting

\* Every handler of the three components.
Spec == Init /\ [][Next]_vars

(***************************************************************************)
(* Sessions in which the user uses some of the controls only.  Each is a   *)
(* set of behaviours of Spec.                                              *)
(***************************************************************************)
\* One document loaded, then moves (arrows, drag and drop), deletes, saves.
NextMove == Loading(LongFiles) \/ Selecting \/ Moving \/ Dragging \/ Saving

SpecMove == Init /\ [][NextMove]_vars

\* Load, select, delete, move, add pages, reset.
NextAdd == Tick \/ Loading(LoadFiles) \/ Selecting \/ Moving \/ Adding \/ resetOrganizer

SpecAdd == Init /\ [][NextAdd]_vars

\* Load, select, delete, move, duplicate, reset.
NextDup ==
    Tick \/ Loading(LoadFiles) \/ Selecting \/ Moving \/ Duplicating \/ resetOrganizer

SpecDup == Init /\ [][NextDup]_vars

\* Load, duplicate, add pages, save.
NextSave == Tick \/ Loading(LoadFiles) \/ Duplicating \/ Adding \/ Saving

SpecSave == Init /\ [][NextSave]_vars

\* Load, select, delete, add pages, save.
NextAppend == Tick \/ Loading(LoadFiles) \/ Selecting \/ Adding \/ Saving

SpecAppend == Init /\ [][NextAppend]_vars

\* Whether a savePdf call is between two awaits.
SavePending == \E k \in 1..Len(calls) : calls[k].kind = "save"

\* Whether every entry of the page list is as handleFile built it.
Untouched ==
    \A j \in 1..Len(pages) : pages[j] = LoadedPage(pdfFile, pages[j].originalIndex)

\* One document loaded; Save clicked on a list of loaded pages; while the
\* save is pending: select, delete, move, duplicate, add pages.
NextEdit ==
    \/ Loading({"a.pdf"})
    \/ (Untouched /\ savePdf)
    \/ \E k \in 1..Len(calls) : savePdfDelivered(k)
    \/ \E k \in 1..Len(calls) : savePdfFailed(k)
    \/ (SavePending /\ (Selecting \/ Moving \/ Duplicating \/ Adding))

SpecEdit == Init /\ [][NextEdit]_vars

\* The merger: add, remove, move up and down, merge, within one millisecond.
NextMerge == Merging

SpecMerge == Init /\ [][NextMerge]_vars

\* The converter: add, remove, convert, within one millisecond.
NextConvert == Converting

SpecConvert == Init /\ [][NextConvert]_vars

\* The load event of an image element whose data decode is fired.
ImageLoads == \E k \in 1..Len(converter.calls) : imageOnload(k)

SpecConvertFair == SpecConvert /\ WF_vars(ImageLoads)

(***************************************************************************)
(* Properties.                                                             *)
(***************************************************************************)
\* The source page an entry was created for: its document and page index.
SourcePage(p) == [doc |-> p.thumbnail.doc, page |-> p.originalIndex]

\* C1: once a load of a document with at least one page has completed, and
\* until the session is reset, the page list is never empty.
C1_NeverEmptied == hist.loaded => pages # <<>>

\* C2: deleteSelectedPages on a list of N entries with k selected ids.
\* k = N: the list and the selection are unchanged and the rejection is
\* alerted.  The selection is k ids of the list, 0 < k < N: N - k entries
\* are left, they are the unselected entries in their order, and the
\* selection is empty.
C2_DeleteSelected ==
    [][last'.op = "deleteSelectedPages" =>
        LET N == Len(pages)
            k == Cardinality(selectedPages)
        IN  /\ k = N =>
                 /\ pages' = pages
                 /\ selectedPages' = selectedPages
                 /\ last'.flag
            /\ (selectedPages \subseteq Ids(pages) /\ 0 < k /\ k < N) =>
                 /\ Len(pages') = N - k
                 /\ \A j \in 1..Len(pages') : pages'[j].id \notin selectedPages
                 /\ \E keep \in SUBSET (1..N) :
                        /\ Cardinality(keep) = N - k
                        /\ LET Kept(j) == j \in keep
                               idx == SelectSeq([j \in 1..N |-> j], Kept)
                           IN  pages' = [j \in 1..Len(idx) |-> pages[idx[j]]]
                 /\ selectedPages' = {}
                 /\ ~last'.flag]_vars

\* C3: every selected id is the id of an entry of the page list.
C3_SelectionExists == selectedPages \subseteq Ids(pages)

\* C4: a delivered document has exactly one page per entry the page list
\* had when savePdf was invoked.
C4_OutputLength == last.op = "saved" => Len(last.out) = Len(last.snap)

\* C5: savePdf invoked right after duplicatePage(i): the delivered document
\* holds the source page of entry i twice in immediate succession.
C5_DuplicateTwice ==
    (last.op = "saved" /\ last.a >= 0) =>
        \E j \in 1..(Len(last.out) - 1) :
            /\ last.out[j] = SourcePage(At(last.snap, last.a))
            /\ last.out[j + 1] = SourcePage(At(last.snap, last.a))

\* C6: every entry of a saved page list comes from the document savePdf
\* reads, and savePdf resolves it to its own source page of that document.
C6_ResolvesOwnSource ==
    last.op = "saved" =>
        \A j \in 1..Len(last.snap) :
            LET p == last.snap[j] IN
            /\ p.thumbnail.doc = last.file
            /\ Resolvable(p, last.file)
            /\ PageIndexOf(p.id) = p.originalIndex

\* C7: a move from position a to a position b of the list, b # a, leaves
\* the entry at b and the others in their order; otherwise the list is
\* unchanged.  For movePage b is toIndex, for handlePageDrop b is the index
\* of the page dropped onto and a the index of the dragged page.
C7_MoveToTarget ==
    [][last'.op \in {"movePage", "handlePageDrop"} =>
        LET a == last'.a
            b == last'.b
        IN  IF a \in 0..(Len(pages) - 1) /\ b \in 0..(Len(pages) - 1) /\ a # b
            THEN /\ Len(pages') = Len(pages)
                 /\ At(pages', b) = At(pages, a)
                 /\ RemoveAt(pages', b) = RemoveAt(pages, a)
            ELSE pages' = pages]_vars

\* C8: one document loaded, then moves and deletes: the loaded list is the
\* document's pages in page order, and a delivered document has one page
\* per entry of the saved list, in the list's order, each the source page
\* of its entry.
C8_RoundTrip ==
    /\ last.op = "loaded" =>
          pages = [j \in 1..PageCount(last.file) |->
                      [id |-> pages[j].id, originalIndex |-> j - 1,
                       thumbnail |-> [doc |-> last.file, page |-> j - 1]]]
    /\ last.op = "saved" =>
          last.out = [j \in 1..Len(last.snap) |-> SourcePage(last.snap[j])]

\* C8 (witness): a document was delivered for a list that had been
\* reordered and shortened to two entries.
C8_Witness ==
    /\ last.op = "saved"
    /\ Len(last.snap) = 2
    /\ last.snap[1].originalIndex > last.snap[2].originalIndex
    /\ Len(last.out) = 2

\* C9: a load or an add-pages call that fails has changed neither the page
\* list nor the current file, the parsed document or the selection.
C9_FailureChangesNothing ==
    last.op \in {"loadFailed", "addFailed"} => ~last.flag

\* C10: duplicatePage(i) inserts one entry at i + 1 with the source page of
\* entry i and an id that no entry has; the other entries keep their order
\* and the selection is unchanged, so the new entry is not selected.
C10_DuplicateFresh ==
    [][last'.op = "duplicatePage" =>
        LET i == last'.a IN
        /\ Len(pages') = Len(pages) + 1
        /\ RemoveAt(pages', i + 1) = pages
        /\ SourcePage(At(pages', i + 1)) = SourcePage(At(pages, i))
        /\ At(pages', i + 1).id \notin Ids(pages)
        /\ selectedPages' = selectedPages
        /\ At(pages', i + 1).id \notin selectedPages']_vars

\* C11: the page list changed by moves, deletes, duplicates or completed
\* add-pages calls while savePdf is pending: the delivered document is the
\* one savePdf builds from the list it was invoked on, whatever the list is
\* by then; when every entry of that list is a page of the loaded document
\* under the id the load gave it, the document is that list's source pages
\* in that list's order.
C11_SnapshotIsolation ==
    last.op = "saved" =>
        /\ last.out = SaveOutput(last.snap, last.file)
        /\ (\A j \in 1..Len(last.snap) :
                last.snap[j] = LoadedPage(last.file, last.snap[j].originalIndex))
              => last.out = [j \in 1..Len(last.snap) |-> SourcePage(last.snap[j])]

\* C11 (witness): a document was delivered for the two loaded pages while
\* the list had become another one: its first entry moved or deleted, and a
\* page of another document appended by a completed add-pages call.
C11_Witness ==
    /\ last.op = "saved"
    /\ last.snap = <<LoadedPage(last.file, 0), LoadedPage(last.file, 1)>>
    /\ Len(last.out) = 2
    /\ pages # <<>>
    /\ pages[1] # last.snap[1]
    /\ \E j \in 1..Len(pages) : pages[j].thumbnail.doc # last.file

\* C12: the ids of the entries of the page list are pairwise distinct.
C12_DistinctIds ==
    \A i \in 1..Len(pages) : \A j \in 1..Len(pages) :
        i # j => pages[i].id # pages[j].id

\* C13: when resetOrganizer has run, no object URL created since the
\* previous reset is left unrevoked: none was dropped from the list by a
\* delete, by a failed call or by a load replacing the list.
C13_PreviewsReleased == last.op = "resetOrganizer" => ~last.flag

\* The pages of the files of the list s, file after file, each file's pages
\* in its own page order.
RECURSIVE Concatenation(_)
Concatenation(s) ==
    IF s = <<>> THEN <<>>
    ELSE [j \in 1..PageCount(Head(s).file) |-> [doc |-> Head(s).file, page |-> j - 1]]
            \o Concatenation(Tail(s))

\* C14: a merge delivers only for a list of at least two files that all
\* parse, and the document is the concatenation of the files' pages in the
\* order the list had when mergePdfs was invoked; a merge fails only on a
\* file that does not parse; no merge runs on fewer than two files.
C14_MergeConcatenates ==
    /\ last.op = "merged" =>
          /\ Len(last.snap) >= 2
          /\ \A j \in 1..Len(last.snap) : PageCount(last.snap[j].file) >= 0
          /\ last.out = Concatenation(last.snap)
    /\ last.op = "mergeFailed" =>
          \E j \in 1..Len(last.snap) : PageCount(last.snap[j].file) < 0
    /\ \A k \in 1..Len(merger.calls) : Len(merger.calls[k].snap) >= 2
    /\ merger.isProcessing <=> merger.calls # <<>>

\* C14 (witness): three files merged, the one-page file first and last and
\* the two-page file between them, while the list was changed before the
\* merge settled.
C14_Witness ==
    /\ last.op = "merged"
    /\ [j \in 1..Len(last.snap) |-> last.snap[j].file] = <<"b.pdf", "a.pdf", "b.pdf">>
    /\ Len(last.out) = 4
    /\ merger.pdfs # last.snap

C18_BatchOrder ==
    \A i \in 1..Len(converter.images) : \A j \in 1..Len(converter.images) :
        LET f == converter.images[i].file
            g == converter.images[j].file
        IN  i < j => \/ f.batch < g.batch
                     \/ f.batch = g.batch /\ f.k < g.k

\* C19: a conversion that has been started settles: isProcessing, once
\* true, becomes false again.
C19_ConversionSettles == converter.isProcessing ~> ~converter.isProcessing

\* C16: isProcessing is true exactly while a load, an add-pages or a save
\* call is in flight.
C16_ProcessingWhileInFlight == isProcessing <=> calls # <<>>

\* C17: after resetOrganizer the page list is empty, and an add-pages call
\* that was in flight when the organizer was reset appends nothing when it
\* completes.
C17_ResetDiscardsPending ==
    /\ last.op = "resetOrganizer" => pages = <<>>
    /\ (last.op = "added" /\ last.flag) => last.a = 0
=============================================================================
